---- MODULE Spec2Model ----
(***************************************************************************)
(* det_multi_main.cpp: evaluation of an ensemble of density estimation     *)
(* trees on a stream of test points.  The state is main()'s locals, the    *)
(* two streams and the iterations of the OpenMP loop; one action per step  *)
(* of main().                                                              *)
(*                                                                         *)
(* Numbers: a density value is an integer number of quanta, the weighted   *)
(* sum is an integer and the quotient is kept as an exact reduced          *)
(* fraction (Quot), so rounding of long double / double is not part of     *)
(* the model.  Text: the input is a sequence of one-character strings.     *)
(***************************************************************************)
EXTENDS Integers, Sequences, FiniteSets, TLC

\* ---------------------------------------------------------------- bounds
MaxFiles == 2      \* model resources on the command line
MaxThreads == 2    \* OpenMP worker threads
MaxLen == 4        \* characters of input text
MaxDim == 2        \* dimension of the single tree in the record-driven runs

\* ---------------------------------------------------------------- inputs
Digits == {"1", "2"}
Space == " "
Junk == "x"
Newline == "\n"
Chars == Digits \cup {Space, Junk, Newline}

DigitVal(c) == IF c = "1" THEN 1 ELSE 2

\* A model resource: a tree [dim |-> MaxVals().n_elem, cnt |-> End() - Start(),
\* leaf |-> density of the leaf, in quanta] that deserializes (ok) or does not
\* (Corrupt: what the file describes is then never seen by main).
Tree(d, c, l) == [ok |-> TRUE, dim |-> d, cnt |-> c, leaf |-> l]
Corrupt == [ok |-> FALSE, dim |-> 3, cnt |-> 1, leaf |-> 1]
Null == [ok |-> FALSE, dim |-> 0, cnt |-> 0, leaf |-> 0]
Pool == {Corrupt, Tree(1, 3, 2), Tree(2, 1, 4), Tree(1, 0, 2), Tree(0, 1, 2)}

SeqsUpTo(S, n) == UNION {[1..k -> S] : k \in 0..n}

Zeros(d) == [k \in 1..d |-> 0]

\* ------------------------------------------------- library, as main uses it
\* CLI::HasParam("model_file"): the required vector parameter was given.
HasModelFile(files) == files # <<>>

\* data::Load(modelFiles[i], "det_model", tree, true): tree points to the
\* deserialized DET, or is null when the resource does not deserialize.
Load(resource) == IF resource.ok THEN resource ELSE Null

\* Log::Assert(cond): the run goes on only when cond holds.
LogAssert(cond) == cond

\* DTree::ComputeValue(data): the leaf's density when the point lies in the
\* tree's bounding box (every trained coordinate at least 1), else 0.
ComputeValue(model, point) ==
  IF \A k \in 1..model.dim : k <= Len(point) /\ point[k] >= 1
  THEN model.leaf ELSE 0

\* Log::Info / Log::Warn / Log::Fatal << parts << endl: one message.
Msg(chan, parts) == [chan |-> chan, text |-> parts]

\* The strings the command line gives for the resources.
ModelFName(k) == "model_" \o ToString(k)
TestFName == "points.txt"
EstFName == "estimates.txt"

\* Log::Fatal << ... << endl ends the process; the streams main has bound
\* until then are released on that path too.
LogFatalReleases == TRUE

\* Mutant: every bound stream gets the default deleter.
Deleter_Default(kind) == IF kind = "unbound" THEN "noop" ELSE "delete"

\* The deleter each shared_ptr was reset with: noop for &cin and &cout, the
\* default one (delete, which closes an open file) for new ifstream/ofstream;
\* an empty shared_ptr calls none.
Deleter(kind) == IF kind = "file" THEN "delete" ELSE "noop"

\* ~shared_ptr of output and of input.
Destroy(cl, inKind, outKind) ==
  [in |-> cl.in + (IF Deleter(inKind) = "delete" THEN 1 ELSE 0),
   out |-> cl.out + (IF Deleter(outKind) = "delete" THEN 1 ELSE 0)]

\* ifstream(fName) / ofstream(fName): good() after the constructor.
OpensGood(file) == file = "ok"

\* std::getline(*input, line_string) on a good stream that has consumed
\* `pos` characters: the characters up to the next newline (consumed, not
\* stored) or to the end of the text (eofbit, and failbit when none is left).
NextNewline(txt, pos) ==
  LET hits == {j \in (pos + 1)..Len(txt) : txt[j] = Newline}
  IN IF hits = {} THEN 0 ELSE CHOOSE j \in hits : \A h \in hits : j <= h

GetLine(txt, pos) ==
  LET j == NextNewline(txt, pos)
  IN IF j # 0
     THEN [line |-> SubSeq(txt, pos + 1, j - 1), pos |-> j,
           eof |-> FALSE, fail |-> FALSE]
     ELSE [line |-> SubSeq(txt, pos + 1, Len(txt)), pos |-> Len(txt),
           eof |-> TRUE, fail |-> pos = Len(txt)]

RECURSIVE DecVal(_)
DecVal(ds) ==
  IF ds = <<>> THEN 0
  ELSE 10 * DecVal(SubSeq(ds, 1, Len(ds) - 1)) + DigitVal(ds[Len(ds)])

\* Mutant: a failed extraction steps over the offending character and leaves
\* the stream good.
Extract_Recovers(line, s, old) ==
  IF s.eof \/ s.fail
  THEN [s |-> [s EXCEPT !.fail = TRUE], val |-> old]
  ELSE LET rest == {p \in (s.pos + 1)..Len(line) : line[p] # Space}
       IN IF rest = {}
          THEN [s |-> [pos |-> Len(line), eof |-> TRUE, fail |-> TRUE],
                val |-> old]
          ELSE LET p == CHOOSE x \in rest : \A y \in rest : x <= y
                   stops == {q \in p..Len(line) : line[q] \notin Digits}
                   q == IF stops = {} THEN Len(line)
                        ELSE (CHOOSE x \in stops : \A y \in stops : x <= y) - 1
               IN IF q < p
                  THEN [s |-> [pos |-> p, eof |-> p = Len(line), fail |-> FALSE],
                        val |-> 0]
                  ELSE [s |-> [pos |-> q, eof |-> q = Len(line), fail |-> FALSE],
                        val |-> DecVal(SubSeq(line, p, q))]

\* line_stream >> data.at(i) on a stringstream in state s = [pos, eof, fail]:
\* the sentry refuses a stream that is not good and one that ends while
\* white space is skipped (the value is left alone); num_get then takes the
\* longest run of digits, sets eofbit when the run ends the string, and
\* stores 0 with failbit when there is no digit.
Extract(line, s, old) ==
  IF s.eof \/ s.fail
  THEN [s |-> [s EXCEPT !.fail = TRUE], val |-> old]
  ELSE LET rest == {p \in (s.pos + 1)..Len(line) : line[p] # Space}
       IN IF rest = {}
          THEN [s |-> [pos |-> Len(line), eof |-> TRUE, fail |-> TRUE],
                val |-> old]
          ELSE LET p == CHOOSE x \in rest : \A y \in rest : x <= y
                   stops == {q \in p..Len(line) : line[q] \notin Digits}
                   q == IF stops = {} THEN Len(line)
                        ELSE (CHOOSE x \in stops : \A y \in stops : x <= y) - 1
               IN IF q < p
                  THEN [s |-> [pos |-> p - 1, eof |-> FALSE, fail |-> TRUE],
                        val |-> 0]
                  ELSE [s |-> [pos |-> q, eof |-> q = Len(line), fail |-> FALSE],
                        val |-> DecVal(SubSeq(line, p, q))]

\* for (i = 0; !line_stream.eof() && i < dataSize; ++i) line_stream >> data.at(i)
RECURSIVE TokLoop(_, _, _, _, _)
TokLoop(line, d, k, s, point) ==
  IF s.eof \/ k >= d THEN point
  ELSE LET r == Extract(line, s, point[k + 1])
       IN TokLoop(line, d, k + 1, r.s, [point EXCEPT ![k + 1] = r.val])

\* Mutant: the loop stops one coordinate early (i < dataSize - 1).
Tokenize_ShortLoop(line, d) ==
  TokLoop(line, d - 1, 0, [pos |-> 0, eof |-> FALSE, fail |-> FALSE], Zeros(d))

Tokenize(line, d) ==
  TokLoop(line, d, 0, [pos |-> 0, eof |-> FALSE, fail |-> FALSE], Zeros(d))

\* density /= count; (double)density: the quotient as a reduced fraction, and
\* what IEEE division gives for a zero divisor.
RECURSIVE Gcd(_, _)
Gcd(a, b) == IF b = 0 THEN a ELSE Gcd(b, a % b)

Quot(num, den) ==
  IF den = 0
  THEN [kind |-> IF num = 0 THEN "nan" ELSE "inf", n |-> 0, d |-> 0]
  ELSE [kind |-> "num", n |-> num \div Gcd(num, den), d |-> den \div Gcd(num, den)]

\* const size_t cnt = model->End() - model->Start()
Weight(model) == model.cnt

\* ----------------------------------------------------------------- state
VARIABLES
  modelFiles,     \* --model_file: the resources, in command-line order
  nthreads,       \* size of the OpenMP team
  text,           \* what the input source holds
  testFile,       \* --test_file: "none" (stdin), "ok" or "bad" (cannot be opened)
  estimatesFile,  \* --estimates_file: "none" (stdout), "ok" or "bad"
  pc,             \* where main() is
  i,              \* index of the loading loop (0-based, as in the code)
  models,         \* vector<DET*> models
  dataSize,
  warnings,       \* indices of the resources Log::Warn reported
  fatal,          \* which Log::Fatal / Log::Assert ended the run, or "none"
  input,          \* [kind, pos, eof, fail]: the bound istream and its state
  output,         \* kind of the bound ostream
  out,            \* the lines written to the output
  nread,          \* number of getline calls made
  line_string,
  data,
  density,
  count,
  wpc,            \* position of each iteration m of the parallel loop
  reg,            \* the value iteration m loaded and has not stored back yet
  diag,           \* the messages given to Log::Info, Log::Warn and Log::Fatal
  flushed,        \* number of lines of out that were flushed (endl)
  closes,         \* how often each bound stream object was deleted
  truncated,      \* the named output resource was created or truncated
  freed           \* how often Dealloc deleted each element of models

inV == <<modelFiles, nthreads, text, testFile, estimatesFile>>
loadV == <<i, models, dataSize, warnings>>
ioV == <<input, output, out, nread>>
recV == <<line_string, data, density, count, wpc, reg>>
resV == <<diag, flushed, closes, truncated, freed>>
vars == <<inV, pc, fatal, loadV, ioV, recV, resV>>

\* The runs explored: every list of up to MaxFiles pooled resources on a
\* one-record input; the two-tree ensemble of weights 3 and 1 on a two-record
\* input, for every team size; every input text of up to MaxLen characters
\* on one tree of each dimension; every way of naming the input and output
\* resources.
EnsembleTexts == { <<"2", " ", "1">>, <<"1", " ", "1", "\n">> }

RunsEnsemble ==
  [mf : SeqsUpTo(Pool, MaxFiles), nt : 1..MaxThreads, tx : EnsembleTexts,
   tf : {"none"}, ef : {"none"}]

RunsOrder ==
  [mf : {<<Tree(1, 3, 2), Tree(2, 1, 4)>>, <<Corrupt, Tree(2, 1, 4)>>,
          <<Tree(1, 0, 2), Tree(2, 0, 4)>>},
   nt : 1..MaxThreads, tx : {<<"1", " ", "1", "\n", "2", "\n">>},
   tf : {"none"}, ef : {"none"}]

RunsRecords ==
  [mf : {<<Tree(d, 3, 2)>> : d \in 1..MaxDim}, nt : {1},
   tx : SeqsUpTo(Chars, MaxLen), tf : {"none"}, ef : {"none"}]

RunsBinding ==
  [mf : {<<>>, <<Corrupt>>, <<Tree(1, 3, 2)>>}, nt : {1}, tx : {<<"1", "\n">>},
   tf : {"none", "ok", "bad"}, ef : {"none", "ok", "bad"}]

Runs == RunsEnsemble \cup RunsOrder \cup RunsRecords \cup RunsBinding

Unbound == [kind |-> "unbound", pos |-> 0, eof |-> FALSE, fail |-> FALSE]

InitOf(R) ==
  /\ \E r \in R :
       /\ modelFiles = r.mf
       /\ nthreads = r.nt
       /\ text = r.tx
       /\ testFile = r.tf
       /\ estimatesFile = r.ef
  /\ pc = "validate"
  /\ i = 0
  /\ models = <<>>
  /\ dataSize = 0
  /\ warnings = <<>>
  /\ fatal = "none"
  /\ input = Unbound
  /\ output = "unbound"
  /\ out = <<>>
  /\ nread = 0
  /\ line_string = <<>>
  /\ data = <<>>
  /\ density = 0
  /\ count = 0
  /\ wpc = <<>>
  /\ reg = <<>>
  /\ diag = <<>>
  /\ flushed = 0
  /\ closes = [in |-> 0, out |-> 0]
  /\ truncated = FALSE
  /\ freed = <<>>

Init == InitOf(Runs)

\* The runs whose input varies, on one tree of dimension 1.
StreamRuns ==
  RunsOrder \cup RunsBinding
  \cup {r \in RunsRecords : r.mf = <<Tree(1, 3, 2)>>}

InitStream == InitOf(StreamRuns)

\* --------------------------------------------------------------- actions
\* Lines 58-65: Log::Fatal when --model_file is missing.
Validate ==
  /\ pc = "validate"
  /\ IF HasModelFile(modelFiles)
     THEN /\ pc' = "load" /\ fatal' = fatal
          /\ diag' = Append(diag, Msg("info", <<ToString(Len(modelFiles)),
                                                " models provided.">>))
     ELSE /\ pc' = "fatal" /\ fatal' = "model_file"
          /\ diag' = Append(diag, Msg("fatal",
                       <<"You need an already built model(s), in order to ",
                         "run the estimation!">>))
  /\ UNCHANGED <<inV, loadV, ioV, recV, flushed, closes, truncated, freed>>

\* Lines 71-79: what the loading of resource i logs.
LoadDiag(k, ok) ==
  <<Msg("info", <<"Model loading ", ModelFName(k), "...">>),
    IF ok THEN Msg("info", <<" done.">>)
    ELSE Msg("warn", <<" failed loading ", ModelFName(k)>>)>>

\* Mutant: a resource that fails to load ends the run.
LoadModel_FailStops ==
  /\ pc = "load"
  /\ i < Len(modelFiles)
  /\ LET tree == Load(modelFiles[i + 1])
     IN /\ diag' = diag \o LoadDiag(i, tree.ok)
        /\ IF ~tree.ok
           THEN /\ pc' = "fatal" /\ fatal' = "load"
                /\ UNCHANGED <<models, dataSize, warnings, freed>>
           ELSE /\ models' = Append(models, tree)
                /\ freed' = Append(freed, 0)
                /\ dataSize' = IF tree.dim > dataSize THEN tree.dim ELSE dataSize
                /\ UNCHANGED <<warnings, pc, fatal>>
  /\ i' = i + 1
  /\ UNCHANGED <<inV, ioV, recV, flushed, closes, truncated>>

\* Mutant: dataSize is raised from what the resource describes before the
\* null test.
LoadModel_DimFirst ==
  /\ pc = "load"
  /\ i < Len(modelFiles)
  /\ LET tree == Load(modelFiles[i + 1])
         dim == modelFiles[i + 1].dim
     IN /\ diag' = diag \o LoadDiag(i, tree.ok)
        /\ dataSize' = IF dim > dataSize THEN dim ELSE dataSize
        /\ IF ~tree.ok
           THEN warnings' = Append(warnings, i) /\ UNCHANGED <<models, freed>>
           ELSE /\ models' = Append(models, tree)
                /\ freed' = Append(freed, 0)
                /\ UNCHANGED warnings
  /\ i' = i + 1
  /\ UNCHANGED <<inV, pc, fatal, ioV, recV, flushed, closes, truncated>>

\* Lines 69-83: one iteration of the loading loop.
LoadModel ==
  /\ pc = "load"
  /\ i < Len(modelFiles)
  /\ LET tree == Load(modelFiles[i + 1])
     IN /\ diag' = diag \o LoadDiag(i, tree.ok)
        /\ IF ~tree.ok
           THEN /\ warnings' = Append(warnings, i)
                /\ UNCHANGED <<models, dataSize, freed>>
           ELSE /\ models' = Append(models, tree)
                /\ freed' = Append(freed, 0)
                /\ dataSize' = IF tree.dim > dataSize THEN tree.dim ELSE dataSize
                /\ UNCHANGED warnings
  /\ i' = i + 1
  /\ UNCHANGED <<inV, pc, fatal, ioV, recV, flushed, closes, truncated>>

\* Mutant: the check of dataSize is not made.
CheckDataSize_NoCheck ==
  /\ pc = "load"
  /\ i >= Len(modelFiles)
  /\ pc' = "bind_in"
  /\ UNCHANGED <<inV, resV, fatal, loadV, ioV, recV>>

\* Lines 84-86: the loop is over; Log::Assert(dataSize > 0).
CheckDataSize ==
  /\ pc = "load"
  /\ i >= Len(modelFiles)
  /\ IF LogAssert(dataSize > 0)
     THEN pc' = "bind_in" /\ fatal' = fatal /\ diag' = diag
     ELSE /\ pc' = "fatal" /\ fatal' = "assert"
          /\ diag' = Append(diag, Msg("fatal", <<"Assert Failed.">>))
  /\ UNCHANGED <<inV, loadV, ioV, recV, flushed, closes, truncated, freed>>

\* Mutant: the named output is opened before the input is looked at.
BindInput_OutputFirst ==
  /\ pc = "bind_in"
  /\ truncated' = (estimatesFile # "none" /\ OpensGood(estimatesFile))
  /\ IF testFile = "none"
     THEN /\ input' = [Unbound EXCEPT !.kind = "cin"]
          /\ pc' = "bind_out" /\ fatal' = fatal
          /\ diag' = Append(diag, Msg("info",
                       <<"The estimation will operate on the standard input.">>))
          /\ closes' = closes
     ELSE IF OpensGood(testFile)
     THEN /\ input' = [Unbound EXCEPT !.kind = "file"]
          /\ pc' = "bind_out" /\ fatal' = fatal
          /\ diag' = diag \o <<Msg("info", <<"Processing ", TestFName, "...">>),
                               Msg("info", <<" done.">>)>>
          /\ closes' = closes
     ELSE /\ input' = [Unbound EXCEPT !.kind = "file", !.fail = TRUE]
          /\ pc' = "fatal" /\ fatal' = "test_file"
          /\ diag' = diag \o <<Msg("info", <<"Processing ", TestFName, "...">>),
                               Msg("fatal", <<" failed!">>)>>
          /\ closes' = IF LogFatalReleases
                       THEN Destroy(closes, "file", output) ELSE closes
  /\ UNCHANGED <<inV, loadV, output, out, nread, recV, flushed, freed>>

\* Lines 88-105: bind the input to cin or to the named file.
BindInput ==
  /\ pc = "bind_in"
  /\ IF testFile = "none"
     THEN /\ input' = [Unbound EXCEPT !.kind = "cin"]
          /\ pc' = "bind_out" /\ fatal' = fatal
          /\ diag' = Append(diag, Msg("info",
                       <<"The estimation will operate on the standard input.">>))
          /\ closes' = closes
     ELSE IF OpensGood(testFile)
     THEN /\ input' = [Unbound EXCEPT !.kind = "file"]
          /\ pc' = "bind_out" /\ fatal' = fatal
          /\ diag' = diag \o <<Msg("info", <<"Processing ", TestFName, "...">>),
                               Msg("info", <<" done.">>)>>
          /\ closes' = closes
     ELSE /\ input' = [Unbound EXCEPT !.kind = "file", !.fail = TRUE]
          /\ pc' = "fatal" /\ fatal' = "test_file"
          /\ diag' = diag \o <<Msg("info", <<"Processing ", TestFName, "...">>),
                               Msg("fatal", <<" failed!">>)>>
          /\ closes' = IF LogFatalReleases
                       THEN Destroy(closes, "file", output) ELSE closes
  /\ UNCHANGED <<inV, loadV, output, out, nread, recV, flushed, truncated, freed>>

\* Lines 107-118: bind the output to cout or to the named file; ofstream's
\* constructor creates or truncates the file it opens.
BindOutput ==
  /\ pc = "bind_out"
  /\ IF estimatesFile = "none"
     THEN /\ output' = "cout" /\ pc' = "read" /\ fatal' = fatal
          /\ diag' = Append(diag, Msg("info",
               <<"The estimation will be printed on the standard output.">>))
          /\ UNCHANGED <<closes, truncated>>
     ELSE IF OpensGood(estimatesFile)
     THEN /\ output' = "file" /\ pc' = "read" /\ fatal' = fatal
          /\ truncated' = TRUE
          /\ UNCHANGED <<diag, closes>>
     ELSE /\ output' = "file" /\ pc' = "fatal" /\ fatal' = "estimates_file"
          /\ diag' = Append(diag, Msg("fatal",
                       <<"Failed to open ", EstFName, " for writing!">>))
          /\ closes' = IF LogFatalReleases
                       THEN Destroy(closes, input.kind, "file") ELSE closes
          /\ UNCHANGED truncated
  /\ UNCHANGED <<inV, loadV, input, out, nread, recV, flushed, freed>>

\* Lines 126-130: the loop test, getline, and the break on an empty line.
Good(s) == ~s.eof /\ ~s.fail

\* Mutant: an empty line does not leave the loop.
ReadLine_NoBreak ==
  /\ pc = "read"
  /\ IF ~Good(input)
     THEN /\ pc' = "dealloc"
          /\ UNCHANGED <<input, nread, line_string>>
     ELSE LET g == GetLine(text, input.pos)
          IN /\ input' = [input EXCEPT !.pos = g.pos, !.eof = g.eof,
                                       !.fail = g.fail]
             /\ nread' = nread + 1
             /\ line_string' = g.line
             /\ pc' = "tokenize"
  /\ UNCHANGED <<inV, resV, fatal, loadV, output, out, data, density, count, wpc, reg>>

\* Mutant: the loop is also left when getline reached the end of the input.
ReadLine_BreakOnEof ==
  /\ pc = "read"
  /\ IF ~Good(input)
     THEN /\ pc' = "dealloc"
          /\ UNCHANGED <<input, nread, line_string>>
     ELSE LET g == GetLine(text, input.pos)
          IN /\ input' = [input EXCEPT !.pos = g.pos, !.eof = g.eof,
                                       !.fail = g.fail]
             /\ nread' = nread + 1
             /\ line_string' = g.line
             /\ pc' = IF Len(g.line) = 0 \/ g.eof THEN "dealloc" ELSE "tokenize"
  /\ UNCHANGED <<inV, resV, fatal, loadV, output, out, data, density, count, wpc, reg>>

\* Mutant: a line with nothing but white space leaves the loop too.
ReadLine_BreakOnBlank ==
  /\ pc = "read"
  /\ IF ~Good(input)
     THEN /\ pc' = "dealloc"
          /\ UNCHANGED <<input, nread, line_string>>
     ELSE LET g == GetLine(text, input.pos)
          IN /\ input' = [input EXCEPT !.pos = g.pos, !.eof = g.eof,
                                       !.fail = g.fail]
             /\ nread' = nread + 1
             /\ line_string' = g.line
             /\ pc' = IF \A p \in 1..Len(g.line) : g.line[p] = Space
                      THEN "dealloc" ELSE "tokenize"
  /\ UNCHANGED <<inV, resV, fatal, loadV, output, out, data, density, count, wpc, reg>>

ReadLine ==
  /\ pc = "read"
  /\ IF ~Good(input)
     THEN /\ pc' = "dealloc"
          /\ UNCHANGED <<input, nread, line_string>>
     ELSE LET g == GetLine(text, input.pos)
          IN /\ input' = [input EXCEPT !.pos = g.pos, !.eof = g.eof,
                                       !.fail = g.fail]
             /\ nread' = nread + 1
             /\ line_string' = g.line
             /\ pc' = IF Len(g.line) = 0 THEN "dealloc" ELSE "tokenize"
  /\ UNCHANGED <<inV, resV, fatal, loadV, output, out, data, density, count, wpc, reg>>

\* Lines 132-141: the test point of the record, and the two accumulators.
TokenizeLine ==
  /\ pc = "tokenize"
  /\ data' = Tokenize(line_string, dataSize)
  /\ density' = 0
  /\ count' = 0
  /\ wpc' = [m \in 1..Len(models) |-> "todo"]
  /\ reg' = [m \in 1..Len(models) |-> 0]
  /\ pc' = "par"
  /\ UNCHANGED <<inV, resV, fatal, loadV, ioV, line_string>>

\* Lines 147-156, iteration m of `#pragma omp parallel for default(shared)`:
\* density += val * cnt and count += cnt are each a load and a store of a
\* shared variable; at most nthreads iterations are in progress at a time.
Running == {m \in 1..Len(models) : wpc[m] \notin {"todo", "done"}}

LoadDensity(m) ==
  /\ pc = "par"
  /\ wpc[m] = "todo"
  /\ Cardinality(Running) < nthreads
  /\ reg' = [reg EXCEPT ![m] = density]
  /\ wpc' = [wpc EXCEPT ![m] = "density"]
  /\ UNCHANGED <<inV, resV, pc, fatal, loadV, ioV, line_string, data, density, count>>

\* Mutant: the iteration takes its model out of the ensemble.
StoreDensity_Consumes(m) ==
  /\ pc = "par"
  /\ wpc[m] = "density"
  /\ density' = reg[m] + ComputeValue(models[m], data) * Weight(models[m])
  /\ models' = [models EXCEPT ![m] = Null]
  /\ reg' = [reg EXCEPT ![m] = 0]
  /\ wpc' = [wpc EXCEPT ![m] = "between"]
  /\ UNCHANGED <<inV, resV, pc, fatal, i, dataSize, warnings, ioV,
                 line_string, data, count>>

StoreDensity(m) ==
  /\ pc = "par"
  /\ wpc[m] = "density"
  /\ density' = reg[m] + ComputeValue(models[m], data) * Weight(models[m])
  /\ reg' = [reg EXCEPT ![m] = 0]
  /\ wpc' = [wpc EXCEPT ![m] = "between"]
  /\ UNCHANGED <<inV, resV, pc, fatal, loadV, ioV, line_string, data, count>>

LoadCount(m) ==
  /\ pc = "par"
  /\ wpc[m] = "between"
  /\ reg' = [reg EXCEPT ![m] = count]
  /\ wpc' = [wpc EXCEPT ![m] = "count"]
  /\ UNCHANGED <<inV, resV, pc, fatal, loadV, ioV, line_string, data, density, count>>

\* Mutant: count is incremented by one per model instead of by cnt.
StoreCount_Incr(m) ==
  /\ pc = "par"
  /\ wpc[m] = "count"
  /\ count' = reg[m] + 1
  /\ reg' = [reg EXCEPT ![m] = 0]
  /\ wpc' = [wpc EXCEPT ![m] = "done"]
  /\ UNCHANGED <<inV, resV, pc, fatal, loadV, ioV, line_string, data, density>>

StoreCount(m) ==
  /\ pc = "par"
  /\ wpc[m] = "count"
  /\ count' = reg[m] + Weight(models[m])
  /\ reg' = [reg EXCEPT ![m] = 0]
  /\ wpc' = [wpc EXCEPT ![m] = "done"]
  /\ UNCHANGED <<inV, resV, pc, fatal, loadV, ioV, line_string, data, density>>

\* Mutant: the new line is put before the lines already written.
WriteEstimate_Prepend ==
  /\ pc = "par"
  /\ \A m \in 1..Len(models) : wpc[m] = "done"
  /\ density' = Quot(density, count)
  /\ out' = <<[rec |-> nread, data |-> data, est |-> density']>> \o out
  /\ flushed' = Len(out')
  /\ pc' = "read"
  /\ UNCHANGED <<inV, fatal, loadV, input, output, nread,
                 line_string, data, count, wpc, reg,
                 diag, closes, truncated, freed>>

\* Mutant: a zero count is special-cased, and no line is written for it.
WriteEstimate_Guarded ==
  /\ pc = "par"
  /\ \A m \in 1..Len(models) : wpc[m] = "done"
  /\ IF count = 0
     THEN UNCHANGED <<density, out, flushed>>
     ELSE /\ density' = Quot(density, count)
          /\ out' = Append(out, [rec |-> nread, data |-> data, est |-> density'])
          /\ flushed' = Len(out')
  /\ pc' = "read"
  /\ UNCHANGED <<inV, fatal, loadV, input, output, nread,
                 line_string, data, count, wpc, reg,
                 diag, closes, truncated, freed>>

\* Mutant: the line is ended with '\n' instead of endl, and stays in the
\* stream's buffer.
WriteEstimate_NoFlush ==
  /\ pc = "par"
  /\ \A m \in 1..Len(models) : wpc[m] = "done"
  /\ density' = Quot(density, count)
  /\ out' = Append(out, [rec |-> nread, data |-> data, est |-> density'])
  /\ pc' = "read"
  /\ UNCHANGED <<inV, fatal, loadV, input, output, nread,
                 line_string, data, count, wpc, reg, resV>>

\* Lines 158-160, after the loop's barrier: density /= count and the output
\* line.  A line is [rec, data, est]: the estimate written, with the number
\* of the getline call and the point it was computed from.
WriteEstimate ==
  /\ pc = "par"
  /\ \A m \in 1..Len(models) : wpc[m] = "done"
  /\ density' = Quot(density, count)
  /\ out' = Append(out, [rec |-> nread, data |-> data, est |-> density'])
  /\ flushed' = Len(out')
  /\ pc' = "read"
  /\ UNCHANGED <<inV, fatal, loadV, input, output, nread,
                 line_string, data, count, wpc, reg,
                 diag, closes, truncated, freed>>

\* Mutant: the pass starts at the second element.
Dealloc_SkipFirst ==
  /\ pc = "dealloc"
  /\ freed' = [m \in 1..Len(models) |-> IF m = 1 THEN freed[m] ELSE freed[m] + 1]
  /\ pc' = "done"
  /\ UNCHANGED <<inV, fatal, loadV, ioV, recV, diag, flushed, closes, truncated>>

\* Lines 51, 163-164: the loop is left; for_each deletes every element of
\* models.
Dealloc ==
  /\ pc = "dealloc"
  /\ freed' = [m \in 1..Len(models) |-> freed[m] + 1]
  /\ pc' = "done"
  /\ UNCHANGED <<inV, fatal, loadV, ioV, recV, diag, flushed, closes, truncated>>

\* Line 165: main returns; output and input go out of scope.
ReturnMain ==
  /\ pc = "done"
  /\ closes' = Destroy(closes, input.kind, output)
  /\ pc' = "exit"
  /\ UNCHANGED <<inV, fatal, loadV, ioV, recV, diag, flushed, truncated, freed>>

Next ==
  \/ Validate
  \/ LoadModel
  \/ CheckDataSize
  \/ BindInput
  \/ BindOutput
  \/ ReadLine
  \/ TokenizeLine
  \/ \E m \in 1..Len(models) : LoadDensity(m)
  \/ \E m \in 1..Len(models) : StoreDensity(m)
  \/ \E m \in 1..Len(models) : LoadCount(m)
  \/ \E m \in 1..Len(models) : StoreCount(m)
  \/ WriteEstimate
  \/ Dealloc
  \/ ReturnMain

Spec == Init /\ [][Next]_vars

\* The main thread and the OpenMP team are scheduled until main returns.
FairSpec == InitStream /\ [][Next]_vars /\ WF_vars(Next)

\* ------------------------------------------------------ reference values
\* The sums of the weighted average, taken over the whole ensemble.
RECURSIVE WeightedSum(_, _)
WeightedSum(ms, point) ==
  IF ms = <<>> THEN 0
  ELSE ComputeValue(Head(ms), point) * Weight(Head(ms))
       + WeightedSum(Tail(ms), point)

RECURSIVE TotalWeight(_)
TotalWeight(ms) ==
  IF ms = <<>> THEN 0 ELSE Weight(Head(ms)) + TotalWeight(Tail(ms))

\* The lines of a text: line k lies between newline k-1 and newline k; what
\* follows the last newline is a last line when it is not empty.
NlSet(txt) == {j \in 1..Len(txt) : txt[j] = Newline}

NlPos(txt, k) ==
  IF k = 0 THEN 0
  ELSE IF k > Cardinality(NlSet(txt)) THEN Len(txt) + 1
  ELSE CHOOSE j \in NlSet(txt) : Cardinality({h \in NlSet(txt) : h <= j}) = k

LineAt(txt, k) == SubSeq(txt, NlPos(txt, k - 1) + 1, NlPos(txt, k) - 1)

NumTerminated(txt) == Cardinality(NlSet(txt))

NumLines(txt) ==
  NumTerminated(txt)
  + (IF NlPos(txt, NumTerminated(txt)) < Len(txt) THEN 1 ELSE 0)

FirstEmpty(txt) ==
  LET E == {k \in 1..NumTerminated(txt) : LineAt(txt, k) = <<>>}
  IN IF E = {} THEN 0 ELSE CHOOSE k \in E : \A h \in E : k <= h

LoopEnded == pc = "par" /\ \A m \in 1..Len(models) : wpc[m] = "done"

\* ---------------------------------------------------------------- claims
\* C1: when the parallel loop over the models ends, density and count hold
\* the sum of val_m * cnt_m and the sum of cnt_m over all loaded models,
\* for every interleaving of the workers' loads and stores.
C1_NoLostUpdate ==
  LoopEnded => /\ density = WeightedSum(models, data)
               /\ count = TotalWeight(models)

\* C2: the k-th line written is the estimate of the k-th record read: it
\* comes from the k-th getline call and from the point parsed from the k-th
\* line of the input, for every team size.
C2_OrderPreserved ==
  \A k \in 1..Len(out) :
    /\ out[k].rec = k
    /\ out[k].data = Tokenize(LineAt(text, k), dataSize)
    /\ LineAt(text, k) # <<>>

C2_Witness ==
  /\ pc = "done"
  /\ nthreads = 2
  /\ Len(models) = 2
  /\ Len(out) = 2
  /\ out[1].data # out[2].data
  /\ out[1].est # out[2].est

\* C3: every estimate written equals (sum of valueAt_m(point) * weight_m) /
\* (sum of weight_m) over the loaded models, whatever the order in which the
\* reduction loop visits them.
C3_WeightedAverage ==
  \A k \in 1..Len(out) :
    out[k].est = Quot(WeightedSum(models, out[k].data), TotalWeight(models))

\* C4 as stated: with exactly one loaded model, whatever its weight, every
\* estimate equals that model's valueAt(point).
C4_SingleModelAnyWeight ==
  Len(models) = 1 =>
    \A k \in 1..Len(out) :
      out[k].est = [kind |-> "num", n |-> ComputeValue(models[1], out[k].data),
                    d |-> 1]

\* C4 as amended: with exactly one loaded model of positive weight, every
\* estimate equals that model's valueAt(point); with weight 0 it is NaN.
C4_SingleModelPositiveWeight ==
  Len(models) = 1 =>
    \A k \in 1..Len(out) :
      out[k].est =
        IF Weight(models[1]) > 0
        THEN [kind |-> "num", n |-> ComputeValue(models[1], out[k].data),
              d |-> 1]
        ELSE [kind |-> "nan", n |-> 0, d |-> 0]

C4_Witness ==
  /\ Len(models) = 1
  /\ Weight(models[1]) = 3
  /\ Len(out) = 2
  /\ out[1].est.n = 2

\* C5: after i iterations of the loading loop the ensemble holds one model
\* per resource that deserialized and one warning was emitted per resource
\* that did not; no failed resource ends the loop early, and when a resource
\* with coordinates has loaded only a stream that cannot be opened ends the
\* run.
Loaded(n) == {k \in 1..n : modelFiles[k].ok}
Failed(n) == {k \in 1..n : ~modelFiles[k].ok}

C6_EmptyEnsembleHalts ==
  (pc \notin {"validate", "load"} /\ (models = <<>> \/ dataSize = 0))
    => /\ pc = "fatal"
       /\ input.kind = "unbound"
       /\ output = "unbound"
       /\ nread = 0
       /\ out = <<>>

C6_Witness ==
  /\ pc = "fatal"
  /\ fatal = "assert"
  /\ Len(warnings) = 2
  /\ models = <<>>

\* C7: dataSize is always the largest dimension among the models pushed so
\* far (0 if none), which are the resources that loaded; it does not change
\* once the loading loop is over.
MaxOf(S) == IF S = {} THEN 0 ELSE CHOOSE x \in S : \A y \in S : y <= x

C7_DataSizeIsMax ==
  /\ [](/\ dataSize = MaxOf({models[k].dim : k \in 1..Len(models)})
        /\ dataSize = MaxOf({modelFiles[k].dim : k \in Loaded(i)}))
  /\ [][pc \notin {"validate", "load"} => dataSize' = dataSize]_vars

C7_Witness ==
  /\ pc = "done"
  /\ Len(warnings) = 1
  /\ dataSize = 2
  /\ Len(out) = 2

\* C8: when line k is the first empty line of the input, no character after
\* line k is read, at most k - 1 lines are written, and exactly k - 1 when
\* the loop is left.
C8_EmptyLineStops ==
  LET k == FirstEmpty(text)
  IN k > 0 =>
       /\ nread <= k
       /\ input.pos <= NlPos(text, k)
       /\ Len(out) <= k - 1
       /\ pc \in {"dealloc", "done"} => (Len(out) = k - 1 /\ nread = k)

C8_Witness ==
  /\ pc = "done"
  /\ FirstEmpty(text) = 2
  /\ Len(text) > NlPos(text, 2)
  /\ Len(out) = 1

\* C9: on an input of n non-empty lines and no empty line, terminated by a
\* newline or not, the record loop comes to its end, no fatal error is raised
\* in it, and exactly n lines have been written.
C9_AllRecordsWritten ==
  /\ [](FirstEmpty(text) = 0 =>
          /\ Len(out) <= NumLines(text)
          /\ pc \in {"dealloc", "done"} => Len(out) = NumLines(text)
          /\ pc = "fatal" => nread = 0)
  /\ (pc = "read") ~> (pc = "done")

C9_Witness ==
  /\ pc = "done"
  /\ FirstEmpty(text) = 0
  /\ NumLines(text) = 2
  /\ NumTerminated(text) = 1
  /\ Len(out) = 2

\* C10: the point of a record of numeric tokens t1..tj has dataSize
\* coordinates: t_k for k up to min(j, dataSize), then 0; tokens past
\* dataSize are not used.
IsNumericRecord(line) == \A p \in 1..Len(line) : line[p] \in Digits \cup {Space}

TokenStarts(line) ==
  {p \in 1..Len(line) : line[p] \in Digits /\ (p = 1 \/ line[p - 1] = Space)}

TokenStart(line, k) ==
  CHOOSE p \in TokenStarts(line) :
    Cardinality({h \in TokenStarts(line) : h <= p}) = k

RECURSIVE Horner(_, _, _)
Horner(line, p, acc) ==
  IF p > Len(line) \/ line[p] \notin Digits THEN acc
  ELSE Horner(line, p + 1, 10 * acc + DigitVal(line[p]))

ExpectedPoint(line, d) ==
  [k \in 1..d |-> IF k <= Cardinality(TokenStarts(line))
                  THEN Horner(line, TokenStart(line, k), 0) ELSE 0]

C10_TokensToPoint ==
  pc = "par" =>
    /\ Len(data) = dataSize
    /\ IsNumericRecord(line_string) =>
         data = ExpectedPoint(line_string, dataSize)

C10_Witness ==
  /\ pc = "par"
  /\ IsNumericRecord(line_string)
  /\ Cardinality(TokenStarts(line_string)) = 1
  /\ dataSize = 2
  /\ data = <<2, 0>>

\* C11: the record loop is incremental: a line is read only when every
\* record read before has its output line written and flushed, so the
\* getline calls made exceed the lines written by at most one; the program
\* holds one line, and nothing of the input past that line has been consumed.
C11_Incremental ==
  /\ [](/\ Len(out) <= nread
        /\ nread <= Len(out) + 1
        /\ flushed = Len(out)
        /\ input.pos <= NlPos(text, nread)
        /\ \A p \in 1..Len(line_string) : line_string[p] # Newline)
  /\ [][nread' # nread =>
          /\ nread' = nread + 1
          /\ Len(out) = nread
          /\ flushed = nread]_vars

C11_Witness ==
  /\ pc = "tokenize"
  /\ nread = 2
  /\ Len(out) = 1
  /\ flushed = 1

\* C12: when the named input or the named output cannot be opened, the run
\* ends fatally with no record read, and a message given to Log::Fatal holds
\* the name of the resource that failed.
Range(f) == {f[k] : k \in DOMAIN f}

FatalNames == UNION {Range(diag[k].text) : k \in {h \in 1..Len(diag) : diag[h].chan = "fatal"}}

C12_FatalNamesResource ==
  /\ (testFile = "bad" /\ pc \notin {"validate", "load", "bind_in"}
      /\ fatal \notin {"model_file", "assert"})
       => (pc = "fatal" /\ fatal = "test_file" /\ nread = 0
           /\ TestFName \in FatalNames)
  /\ (estimatesFile = "bad" /\ testFile # "bad"
      /\ pc \notin {"validate", "load", "bind_in", "bind_out"}
      /\ fatal \notin {"model_file", "assert"})
       => (pc = "fatal" /\ fatal = "estimates_file" /\ nread = 0
           /\ EstFName \in FatalNames)

\* C13: when the run has ended after binding, by returning from main or by
\* the fatal error of an open that failed, each stream that was opened from a
\* named resource has been deleted (closed) exactly once; no stream is
\* deleted before the run ends, and cin and cout are never deleted.
InputOpened == input.kind = "file" /\ OpensGood(testFile)
OutputOpened == output = "file" /\ OpensGood(estimatesFile)

C13_WitnessFatal ==
  /\ pc = "fatal"
  /\ fatal = "estimates_file"
  /\ InputOpened
  /\ closes.in = 1

\* C14: while main is in the record loop the ensemble is not changed: no
\* step adds, removes, reorders, changes or frees a model; and a step of a
\* worker of the parallel loop writes only density and count (with the
\* worker's own position and register).
InRecordLoop == pc \in {"read", "tokenize", "par"}

C14_EnsembleReadOnly ==
  /\ [][InRecordLoop => UNCHANGED <<models, dataSize, freed>>]_vars
  /\ [][(pc = "par" /\ pc' = "par") =>
          UNCHANGED <<inV, fatal, loadV, ioV, line_string, data, resV>>]_vars

C14_Witness ==
  /\ pc = "par"
  /\ nthreads = 2
  /\ Len(models) = 2
  /\ wpc[1] = "done"
  /\ wpc[2] = "count"
  /\ density > 0
  /\ count > 0

\* C15: when the weights of the loaded models sum to zero, every record
\* still gives one output line, which holds the result of 0 / 0; no warning
\* or fatal error is raised in the record loop, and the loop goes on to the
\* next record until the input ends.
ExpectedRecords(txt) ==
  IF FirstEmpty(txt) = 0 THEN NumLines(txt) ELSE FirstEmpty(txt) - 1

C15_ZeroWeightNoBranch ==
  (models # <<>> /\ dataSize > 0 /\ TotalWeight(models) = 0
   /\ pc \notin {"validate", "load"}) =>
    /\ \A k \in 1..Len(out) : out[k].est = [kind |-> "nan", n |-> 0, d |-> 0]
    /\ Len(out) >= nread - 1
    /\ pc \in {"dealloc", "done", "exit"} => Len(out) = ExpectedRecords(text)
    /\ fatal # "none" => nread = 0
    /\ Cardinality({k \in 1..Len(diag) : diag[k].chan = "warn"}) = Len(warnings)
    /\ Cardinality({k \in 1..Len(diag) : diag[k].chan = "fatal"})
         = (IF fatal = "none" THEN 0 ELSE 1)

C15_Witness ==
  /\ pc = "exit"
  /\ Len(models) = 2
  /\ TotalWeight(models) = 0
  /\ Len(out) = 2
  /\ out[1].est.kind = "nan"
  /\ out[2].est.kind = "nan"
  /\ fatal = "none"

\* C16: on the way to normal completion every element of models is deleted
\* exactly once, by the pass after the record loop: none is deleted while
\* main is in the record loop, none is deleted twice, and no line is written
\* once a model has been deleted.
C16_DeallocOnce ==
  /\ [](/\ Len(freed) = Len(models)
        /\ \A m \in 1..Len(freed) : freed[m] <= 1
        /\ (InRecordLoop \/ pc = "dealloc") => \A m \in 1..Len(freed) : freed[m] = 0
        /\ pc \in {"done", "exit"} => \A m \in 1..Len(freed) : freed[m] = 1)
  /\ [][(\E m \in 1..Len(freed) : freed[m] > 0) => out' = out]_vars

C16_Witness ==
  /\ pc = "done"
  /\ Len(models) = 2
  /\ Len(out) = 2
  /\ freed = <<1, 1>>

\* C17: the point of a record holds the values of the tokens that come
\* before the first character that is no digit and no white space, one per
\* position, and 0 at the position where that character is met and at every
\* later position, also when digits follow it on the line.
FirstJunk(line) ==
  LET J == {p \in 1..Len(line) : line[p] \notin Digits \cup {Space}}
  IN IF J = {} THEN Len(line) + 1 ELSE CHOOSE p \in J : \A q \in J : p <= q

NumericPrefix(line) == SubSeq(line, 1, FirstJunk(line) - 1)

C17_StopsAtFirstFailure ==
  pc = "par" =>
    /\ data = ExpectedPoint(NumericPrefix(line_string), dataSize)
    /\ \A k \in 1..dataSize :
         k > Cardinality(TokenStarts(NumericPrefix(line_string))) => data[k] = 0

C17_Witness ==
  /\ pc = "par"
  /\ dataSize = 2
  /\ line_string = <<"x", " ", "2">>
  /\ data = <<0, 0>>

C17_WitnessPrefix ==
  /\ pc = "par"
  /\ dataSize = 2
  /\ line_string = <<"1", "x", " ", "2">>
  /\ data = <<1, 0>>

\* C18: a line that is not empty and holds no digit (white space only, or
\* other text) is a record: its point is all zero, one line is written for
\* it, and the loop goes on; when the loop is left, one line has been written
\* for every line before the first line of length zero.
NoDigit(line) == \A p \in 1..Len(line) : line[p] \notin Digits

C18_OnlyEmptyLineStops ==
  /\ \A k \in 1..Len(out) :
       NoDigit(LineAt(text, k)) =>
         (LineAt(text, k) # <<>> /\ out[k].data = Zeros(dataSize))
  /\ (pc = "par" /\ NoDigit(line_string)) => data = Zeros(dataSize)
  /\ pc \in {"dealloc", "done", "exit"} => Len(out) = ExpectedRecords(text)

C18_Witness ==
  /\ pc = "exit"
  /\ LineAt(text, 1) = <<" ">>
  /\ LineAt(text, 2) = <<"1">>
  /\ Len(out) = 2
  /\ out[1].data = Zeros(dataSize)
  /\ out[2].data[1] = 1

\* C19: the checks are made in the order model list, loading and dataSize,
\* input, output: the named output is created or truncated only when the
\* whole list was gone through, a model with coordinates has loaded and the
\* input is bound and good; a run ended by an earlier check has bound no
\* output and has not touched the output resource.
C19_FatalOrder ==
  /\ truncated =>
       /\ i = Len(modelFiles)
       /\ models # <<>>
       /\ dataSize > 0
       /\ input.kind \in {"cin", "file"}
       /\ testFile # "bad"
       /\ output = "file"
  /\ fatal \in {"model_file", "assert", "test_file"} =>
       (~truncated /\ output = "unbound")
  /\ fatal = "model_file" => (i = 0 /\ input.kind = "unbound")
  /\ fatal = "assert" => (i = Len(modelFiles) /\ input.kind = "unbound")
  /\ fatal = "test_file" => (dataSize > 0 /\ input.kind = "file")
  /\ fatal = "estimates_file" =>
       (dataSize > 0 /\ input.kind \in {"cin", "file"} /\ testFile # "bad")

C19_Witness ==
  /\ pc = "fatal"
  /\ fatal = "test_file"
  /\ estimatesFile = "ok"
  /\ ~truncated
  /\ output = "unbound"
====
